---- MODULE Spec2Model ----
(***************************************************************************)
(* Model of src/app/app.py: the cached routes find-room, rooms and         *)
(* cache-test behind the shared response cache, served by concurrent       *)
(* workers; the cache-key derivation, the room resolution pipeline and the *)
(* clear-cache endpoint.                                                   *)
(*                                                                         *)
(* Text that the program computes with (names, identifiers, tag values,   *)
(* string values of a body) is a sequence of single characters; the fixed  *)
(* pieces of messages and of the JSON serialisation are kept as one chunk  *)
(* each, so that f-strings are concatenations.                             *)
(*                                                                         *)
(* A JSON value is [kind, elems]; elems holds the members of an object in  *)
(* the order they were sent (a Python dict keeps insertion order), the     *)
(* items of a list, or the one scalar.  Members of objects and items of    *)
(* lists are scalars: [k, t, s] with k the member name ("" in a list), t   *)
(* the JSON type and s the text of the scalar.                             *)
(***************************************************************************)
EXTENDS Integers, Sequences, FiniteSets, TLC

VARIABLES
    osm,        \* the dataset parsed once at start-up (app.py:21), read-only
    cache,      \* the response cache: cache key -> stored response
    calls,      \* number of invocations of find_room so far
    nreq,       \* number of requests received so far
    pc,         \* per worker: position in the cached view
    wreq,       \* per worker: the request in hand
    wrv,        \* per worker: the response in hand
    wmiss,      \* per worker: whether its cache lookup missed
    wseq,       \* per worker: the number of the request in hand
    wrace,      \* per worker: its request missed while another request with
                \* the same cache key had missed and not yet stored
    req,        \* body of the last find-room request answered
    resp,       \* response to the last find-room request answered
    hit,        \* whether that response came out of the cache
    lastOp,     \* the last operation completed
    ckeys,      \* per clear-cache request: the keys it has listed and not yet
                \* deleted, none when it is not in progress
    cleared,    \* a clear-cache has completed
    fresh,      \* a clear-cache has completed and no find-room request with
                \* both parameters has arrived since
    stored,     \* once a clear-cache has completed: the keys written since a
                \* completed clear-cache listed the keys, and not deleted by it
    storing,    \* per clear-cache request in progress: the keys written since
                \* it listed the keys
    answered,   \* the find-room requests answered so far: body, response, and
                \* whether the entry that answer left in the cache is live,
                \* cleared or expired
    universe    \* which set of requests the clients draw from

vars == <<osm, cache, calls, nreq, pc, wreq, wrv, wmiss, wseq, wrace,
          req, resp, hit, lastOp, ckeys, cleared, fresh, stored, storing,
          answered,
          universe>>

---------------------------------------------------------------------------
(* Bounds *)

MaxReqs == 2        \* requests per behaviour (one fewer over all body shapes,
                    \* one more in the race and around a clear-cache, a
                    \* single one over the generated datasets)
MaxRooms == 2       \* room records per generated dataset

---------------------------------------------------------------------------
(* Text *)

LowerCase == <<"a", "b", "c", "d", "e", "f", "g", "h", "i", "j", "k", "l", "m",
               "n", "o", "p", "q", "r", "s", "t", "u", "v", "w", "x", "y", "z">>
UpperCase == <<"A", "B", "C", "D", "E", "F", "G", "H", "I", "J", "K", "L", "M",
               "N", "O", "P", "Q", "R", "S", "T", "U", "V", "W", "X", "Y", "Z">>

\* The character U+0131 (dotless i), written by its code point.
DotlessI == "U+0131"

\* The characters the model's texts are written in, in code point order.
CodeOrder ==
    <<" ", "\"", "'", "0", "1", "2", "3", "4", "5", "6", "7", "8", "9">>
        \o UpperCase \o <<"\\">> \o LowerCase \o <<"É", "ß", "é", DotlessI, "ẞ">>

\* ord(c), up to the order of the characters
Code(c) == CHOOSE i \in DOMAIN CodeOrder : CodeOrder[i] = c

\* Python s1 < s2 for two strings
RECURSIVE TextBefore(_, _)
TextBefore(s1, s2) ==
    IF s2 = <<>> THEN FALSE
    ELSE IF s1 = <<>> THEN TRUE
    ELSE IF Head(s1) = Head(s2) THEN TextBefore(Tail(s1), Tail(s2))
    ELSE Code(Head(s1)) < Code(Head(s2))

\* upper() of one character, a text: a lower-case letter becomes its
\* capital (the dotless i becomes "I"), "ß" becomes "SS", any other character stays.
UpperChar(c) ==
    CASE \E i \in DOMAIN LowerCase : LowerCase[i] = c ->
            <<UpperCase[CHOOSE i \in DOMAIN LowerCase : LowerCase[i] = c]>>
      [] c = "é" -> <<"É">>
      [] c = DotlessI -> <<"I">>
      [] c = "ß" -> <<"S", "S">>
      [] OTHER -> <<c>>

\* The upper-case form of a text, character by character.
RECURSIVE Capitals(_)
Capitals(s) ==
    IF s = <<>> THEN <<>> ELSE UpperChar(Head(s)) \o Capitals(Tail(s))

\* The characters of a member name.
Spell(name) ==
    CASE name = "building" -> <<"b", "u", "i", "l", "d", "i", "n", "g">>
      [] name = "room" -> <<"r", "o", "o", "m">>
      [] OTHER -> <<name>>

\* Python `sub in text` for two strings.
IsSubstring(sub, text) ==
    \E i \in 0..(Len(text) - Len(sub)) : SubSeq(text, i + 1, i + Len(sub)) = sub

UpperNone(s) == s      \* upper() left out

\* str.upper()
Upper(s) == Capitals(s)

---------------------------------------------------------------------------
(* JSON values and request bodies *)

Elem(k, t, s) == [k |-> k, t |-> t, s |-> s]

StrV(k, s) == Elem(k, "str", s)
IntV(k, n) == Elem(k, "int", <<n>>)

Absent == [kind |-> "absent", elems |-> <<>>]       \* no JSON payload at all
Garbage == [kind |-> "garbage", elems |-> <<>>]     \* a payload that is not JSON
Null == [kind |-> "null", elems |-> <<>>]
Scalar(t, s) == [kind |-> t, elems |-> <<Elem("", t, s)>>]
List(items) == [kind |-> "list", elems |-> items]
Obj(members) == [kind |-> "object", elems |-> members]

\* request.get_json(): raises on a missing or malformed payload, otherwise
\* the parsed value.
get_json(body) ==
    CASE body.kind = "absent" ->
            [raised |-> <<"415 Unsupported Media Type">>, data |-> Null]
      [] body.kind = "garbage" ->
            [raised |-> <<"400 Bad Request">>, data |-> Null]
      [] OTHER -> [raised |-> <<>>, data |-> body]

\* Python truth value of a parsed JSON value (the operand of `not`).
Truthy(data) ==
    CASE data.kind = "null" -> FALSE
      [] data.kind = "bool" -> data.elems[1].s = <<"true">>
      [] data.kind = "int" -> data.elems[1].s # <<"0">>
      [] data.kind = "str" -> data.elems[1].s # <<>>
      [] OTHER -> data.elems # <<>>

\* Python `key in data`: membership among the names of a dict, among the
\* items of a list, as a substring of a str; TypeError on a number or bool.
Contains(key, data) ==
    CASE data.kind = "object" ->
            [raised |-> <<>>,
             val |-> \E i \in DOMAIN data.elems : data.elems[i].k = key]
      [] data.kind = "list" ->
            [raised |-> <<>>,
             val |-> \E i \in DOMAIN data.elems :
                        /\ data.elems[i].t = "str"
                        /\ data.elems[i].s = Spell(key)]
      [] data.kind = "str" ->
            [raised |-> <<>>,
             val |-> IsSubstring(Spell(key), data.elems[1].s)]
      [] OTHER ->
            [raised |-> <<"argument of type '", data.kind, "' is not iterable">>,
             val |-> FALSE]

\* Python data[key]: the member of a dict; TypeError on a list or a str
\* indexed by a str.
GetItem(data, key) ==
    IF data.kind = "object"
    THEN [raised |-> <<>>,
          val |-> data.elems[CHOOSE i \in DOMAIN data.elems : data.elems[i].k = key]]
    ELSE [raised |-> IF data.kind = "list"
                        THEN <<"list indices must be integers or slices, not str">>
                        ELSE <<"string indices must be integers, not 'str'">>,
          val |-> StrV("", <<>>)]

---------------------------------------------------------------------------
(* Cache key derivation *)

Path == "/v1/find-room"

\* The order of two (name, value) items: by name, and with `pairs` by value
\* where the names are equal (Python's order of tuples).
ItemBefore(e1, e2, pairs) ==
    \/ TextBefore(Spell(e1.k), Spell(e2.k))
    \/ pairs /\ e1.k = e2.k /\ TextBefore(e1.s, e2.s)

RECURSIVE Insert(_, _, _)
Insert(e, items, pairs) ==
    IF items = <<>> THEN <<e>>
    ELSE IF ItemBefore(e, Head(items), pairs) THEN <<e>> \o items
    ELSE <<Head(items)>> \o Insert(e, Tail(items), pairs)

\* sorted(): stable, ascending
RECURSIVE Sorted(_, _)
Sorted(items, pairs) ==
    IF items = <<>> THEN <<>>
    ELSE Insert(items[Len(items)], Sorted(SubSeq(items, 1, Len(items) - 1), pairs), pairs)

Unsorted(members) == members      \* sort_keys left out

\* The members of a dict in the order sort_keys=True emits them.
SortedMembers(members) == Sorted(members, FALSE)

\* A character inside a JSON string, as json.dumps writes it with
\* ensure_ascii: the quote and the backslash escaped, a character outside
\* ASCII as \uXXXX.
EscapeChar(c) ==
    CASE c = "\"" -> "\\\""
      [] c = "\\" -> "\\\\"
      [] c = "É" -> "\\u00c9"
      [] c = "ß" -> "\\u00df"
      [] c = "é" -> "\\u00e9"
      [] c = DotlessI -> "\\u0131"
      [] c = "ẞ" -> "\\u1e9e"
      [] OTHER -> c

\* The JSON text of a scalar.
ValueText(e) ==
    IF e.t = "str"
    THEN <<"\"">> \o [i \in DOMAIN e.s |-> EscapeChar(e.s[i])] \o <<"\"">>
    ELSE e.s

RECURSIVE JoinItems(_, _)
JoinItems(items, named) ==
    IF items = <<>> THEN <<>>
    ELSE (IF named
          THEN <<"\"">> \o [i \in DOMAIN Spell(Head(items).k) |->
                                EscapeChar(Spell(Head(items).k)[i])]
                    \o <<"\"", ": ">>
          ELSE <<>>)
            \o ValueText(Head(items))
            \o (IF Len(items) > 1 THEN <<", ">> ELSE <<>>)
            \o JoinItems(Tail(items), named)

\* json.dumps(json_data, sort_keys=True)
dumps(data) ==
    CASE data.kind = "object" ->
            <<"{">> \o JoinItems(SortedMembers(data.elems), TRUE) \o <<"}">>
      [] data.kind = "list" ->
            <<"[">> \o JoinItems(data.elems, FALSE) \o <<"]">>
      [] data.kind = "null" -> <<"null">>
      [] OTHER -> ValueText(data.elems[1])

\* hashlib.md5(...).hexdigest(): distinct texts get distinct digests.
md5(text) == <<"md5(">> \o text \o <<")">>

KeyOfParsed(body) ==              \* the `if not json_data` test left out
    LET j == get_json(body) IN
    IF j.raised # <<>> THEN <<Path>>
    ELSE <<Path, ":">> \o md5(dumps(j.data))

make_request_body_cache_key(body) ==
    LET j == get_json(body) IN
    IF j.raised # <<>> THEN <<Path>>
    ELSE IF ~Truthy(j.data) THEN <<Path>>
    ELSE <<Path, ":">> \o md5(dumps(j.data))

---------------------------------------------------------------------------
(* The dataset and the queries of the map-data and geometry collaborators *)

NoTag == <<>>       \* a tag the record does not carry (None in the frame)

Building(osm_id, name, category, region) ==
    [osm_id |-> osm_id, name |-> name, category |-> category, region |-> region]

Room(id, ref, name, level, indoor, region) ==
    [id |-> id, ref |-> ref, name |-> name, level |-> level,
     indoor |-> indoor, region |-> region]

NoRoom == Room(0, NoTag, NoTag, NoTag, FALSE, "")

\* osm.get_buildings(custom_filter={"name": [building_name]})
get_buildings(o, building_name) ==
    SelectSeq(o.buildings, LAMBDA b : b.name = building_name)

\* unary_union(buildings.geometry): the region covered by all the parts
unary_union(buildings) == {buildings[i].region : i \in DOMAIN buildings}

TagIs(tag, text) == tag # NoTag /\ tag = text

\* Whether the tag filter {"indoor": ["room"], "ref": [id], "name": [id]}
\* keeps a record.  The collaborator keeps a record that matches any of
\* the listed tags (o.filter = "any"), or only an indoor room whose ref
\* or name matches (o.filter = "all"); the dataset fixes which.
Keeps(o, r, room_identifier) ==
    LET tagged == TagIs(r.ref, room_identifier) \/ TagIs(r.name, room_identifier)
    IN  IF o.filter = "any" THEN r.indoor \/ tagged ELSE r.indoor /\ tagged

\* osm.get_data_by_custom_criteria(...)
get_data_by_custom_criteria(o, room_identifier) ==
    SelectSeq(o.rooms, LAMBDA r : Keeps(o, r, room_identifier))

NoJoin(rooms, building_geom) == rooms      \* containment join left out

\* gpd.sjoin(centroids, building_gdf, predicate="within", how="inner")
sjoin(rooms, building_geom) ==
    SelectSeq(rooms, LAMBDA r : r.region \in building_geom)

\* str(value) of a tag value
StrOf(tag) == IF tag = NoTag THEN <<"N", "o", "n", "e">> ELSE tag

---------------------------------------------------------------------------
(* find_room *)

Failure(msg) == [raised |-> <<>>, error |-> msg, match |-> NoRoom]
Raised(exc) == [raised |-> exc, error |-> <<>>, match |-> NoRoom]
Found(r) == [raised |-> <<>>, error |-> <<>>, match |-> r]

AllRows(results, room_identifier) == results      \* exact-match filter left out

\* the list comprehension of lines 158-162
exact_matches(results, room_identifier) ==
    SelectSeq(results, LAMBDA r :
        \/ StrOf(r.ref) = room_identifier
        \/ StrOf(r.name) = room_identifier)

\* find_room(building_name, room_identifier, pbf_path); name and room are
\* the scalars taken from the request body.
find_room(o, name, room) ==
    LET building_name == name.s
        buildings == get_buildings(o, building_name)
    IN
    IF buildings = <<>>
    THEN Failure(<<"Building '">> \o building_name \o <<"' not found">>)
    ELSE IF room.t # "str"
    THEN Raised(<<"'", room.t, "' object has no attribute 'upper'">>)
    ELSE
    LET building_geom == unary_union(buildings)
        room_identifier == Upper(room.s)
        rooms == get_data_by_custom_criteria(o, room_identifier)
    IN
    IF rooms = <<>>
    THEN Failure(<<"Room '">> \o room_identifier \o <<"' not found in dataset">>)
    ELSE
    LET rooms_in_building == sjoin(rooms, building_geom) IN
    IF rooms_in_building = <<>>
    THEN Failure(<<"Room '">> \o room_identifier \o <<"' not found in ">>
                    \o building_name)
    ELSE
    LET exact == exact_matches(rooms_in_building, room_identifier) IN
    IF exact = <<>>
    THEN Failure(<<"Exact match for '">> \o room_identifier \o <<"' not found">>)
    ELSE Found(exact[1])

---------------------------------------------------------------------------
(* handle_find_room *)

Response(status, error, match) ==
    [status |-> status, error |-> error, match |-> match,
     message |-> <<>>, listing |-> <<>>]

MissingParameters == Response(400, <<"Missing required parameters">>, NoRoom)
ServerError(exc) == Response(500, <<"Server error: ">> \o exc, NoRoom)

\* The body of the view function: the response, and whether find_room ran.
handle_find_room(o, body) ==
    LET j == get_json(body)
        data == j.data
        Out(r, ran) == [resp |-> r, invoked |-> ran]
    IN
    IF j.raised # <<>> THEN Out(ServerError(j.raised), FALSE)
    ELSE IF ~Truthy(data) THEN Out(MissingParameters, FALSE)
    ELSE
    LET hasB == Contains("building", data) IN
    IF hasB.raised # <<>> THEN Out(ServerError(hasB.raised), FALSE)
    ELSE IF ~hasB.val THEN Out(MissingParameters, FALSE)
    ELSE
    LET hasR == Contains("room", data) IN
    IF hasR.raised # <<>> THEN Out(ServerError(hasR.raised), FALSE)
    ELSE IF ~hasR.val THEN Out(MissingParameters, FALSE)
    ELSE
    LET b == GetItem(data, "building") IN
    IF b.raised # <<>> THEN Out(ServerError(b.raised), FALSE)
    ELSE
    LET result == find_room(o, b.val, GetItem(data, "room").val) IN
    IF result.raised # <<>> THEN Out(ServerError(result.raised), TRUE)
    ELSE IF result.error # <<>>
    THEN Out(Response(404, result.error, NoRoom), TRUE)
    ELSE Out(Response(200, <<>>, result.match), TRUE)

---------------------------------------------------------------------------
(* Datasets *)

LIB == <<"L", "I", "B">>
GYM == <<"G", "Y", "M">>
NOPE == <<"N", "O", "P", "E">>
A1 == <<"A", "1">>
a1 == <<"a", "1">>
B2 == <<"B", "2">>
None == <<"N", "o", "n", "e">>
NONE == <<"N", "O", "N", "E">>
SS == <<"S", "S">>
SharpS == <<"ß">>
CapitalSharpS == <<"ẞ">>
University == <<"u", "n", "i", "v", "e", "r", "s", "i", "t", "y">>
Yes == <<"y", "e", "s">>
Digit == <<"1", "2", "3", "4", "5", "6", "7", "8", "9">>

\* A campus: the library in two parts, room A1 on two of its levels (one
\* tagged by ref, one by name), a gym with its own rooms.
Campus(filter) ==
    [filter |-> filter,
     buildings |-> <<Building(<<"1">>, LIB, University, "r1"),
                     Building(<<"2">>, LIB, University, "r2"),
                     Building(NoTag, GYM, Yes, "r3")>>,
     rooms |-> <<Room(1, A1, NoTag, <<"1">>, TRUE, "r1"),
                 Room(2, NoTag, A1, <<"2">>, TRUE, "r2"),
                 Room(3, B2, NoTag, <<"1">>, TRUE, "r3"),
                 Room(4, a1, NoTag, NoTag, FALSE, "r3")>>]

Filters == {"any", "all"}

\* Generated datasets: two buildings, and up to MaxRooms room records of
\* every tagging, kind and place.
RoomKinds ==
    {Room(0, A1, NoTag, NoTag, TRUE, "r1"),
     Room(0, A1, NoTag, NoTag, TRUE, "r2"),
     Room(0, NoTag, A1, NoTag, TRUE, "r1"),
     Room(0, NoTag, NoTag, NoTag, TRUE, "r1"),
     Room(0, A1, NoTag, NoTag, FALSE, "r1"),
     Room(0, SS, NoTag, NoTag, TRUE, "r1")}

Numbered(kinds) ==
    [i \in DOMAIN kinds |-> [kinds[i] EXCEPT !.id = i, !.level = <<Digit[i]>>]]

Generated ==
    {[filter |-> f,
      buildings |-> <<Building(<<"1">>, LIB, University, "r1"),
                      Building(<<"2">>, GYM, Yes, "r2"),
                      Building(<<"3">>, GYM, Yes, "r3")>>,
      rooms |-> Numbered(kinds)] :
        f \in Filters,
        kinds \in UNION {[1..n -> RoomKinds] : n \in 0..MaxRooms}}

---------------------------------------------------------------------------
(* Request bodies *)

Complete(bn, room) == Obj(<<StrV("building", bn), room>>)

\* The bodies of the HTTP clients: every shape of payload the handler tells
\* apart, and resolvable requests.
HttpBodies ==
    {Absent, Garbage, Null, Obj(<<>>), List(<<>>),
     Scalar("int", <<"0">>), Scalar("int", <<"5">>),
     Scalar("bool", <<"false">>), Scalar("bool", <<"true">>),
     Scalar("str", <<>>), Scalar("str", Spell("building") \o <<" ">> \o Spell("room")),
     List(<<StrV("", Spell("building")), StrV("", Spell("room"))>>),
     Obj(<<StrV("building", LIB)>>),
     Obj(<<StrV("room", a1), StrV("x", Spell("building"))>>),
     Obj(<<StrV("é", SharpS), StrV("building", LIB)>>),
     Complete(LIB, StrV("room", a1)),
     Obj(<<StrV("room", a1), StrV("building", LIB)>>),
     Complete(LIB, StrV("room", A1)),
     Complete(LIB, StrV("room", B2)),
     Complete(GYM, StrV("room", a1)),
     Complete(NOPE, StrV("room", a1)),
     Complete(LIB, IntV("room", "5"))}

\* The members the objects of the key-order clients are made of.
Members ==
    {StrV("building", LIB), StrV("room", a1), StrV("x", <<"a">>)}

DistinctNames(ms) ==
    \A i, j \in DOMAIN ms : i # j => ms[i].k # ms[j].k

\* The objects with both parameters, in every order of their members.
ObjectBodies ==
    {Obj(ms) : ms \in {m \in UNION {[1..n -> Members] : n \in 2..Cardinality(Members)} :
                            /\ DistinctNames(m)
                            /\ \E i \in DOMAIN m : m[i].k = "building"
                            /\ \E i \in DOMAIN m : m[i].k = "room"}}

\* Complete requests for the generated datasets.
PipeBodies ==
    {Complete(LIB, StrV("room", a1)), Complete(LIB, StrV("room", None)),
     Complete(LIB, StrV("room", SharpS)),
     Complete(NOPE, IntV("room", "5"))}

---------------------------------------------------------------------------
(* The other cached views *)

\* handle_rooms: the records tagged building=university, identifier and name.
handle_rooms(o) ==
    LET buildings == SelectSeq(o.buildings, LAMBDA b : b.category = University)
    IN  [Response(200, <<>>, NoRoom) EXCEPT
            !.listing = [i \in DOMAIN buildings |->
                            [osm_id |-> buildings[i].osm_id,
                             name |-> buildings[i].name]]]

\* cache_test
cache_test ==
    [Response(200, <<>>, NoRoom) EXCEPT
        !.message = <<"This response is cached for 60 seconds">>]

---------------------------------------------------------------------------
(* Requests *)

FindRoom(body) == [route |-> "find-room", body |-> body, query |-> <<>>]
Rooms(query) == [route |-> "rooms", body |-> Absent, query |-> query]
CacheTest == [route |-> "cache-test", body |-> Absent, query |-> <<>>]

\* str() of one (name, value) pair of the query
\* A character inside repr() of a str delimited by `quote`.
ReprChar(c, quote) ==
    CASE c = "\\" -> "\\\\"
      [] c = "'" /\ quote = "'" -> "\\'"
      [] OTHER -> c

\* repr() of a str: in single quotes, or in double quotes where the text
\* holds an apostrophe and no double quote.
Repr(s) ==
    LET quote == IF (\E i \in DOMAIN s : s[i] = "'")
                        /\ ~(\E i \in DOMAIN s : s[i] = "\"")
                 THEN "\"" ELSE "'"
    IN  <<quote>> \o [i \in DOMAIN s |-> ReprChar(s[i], quote)] \o <<quote>>

PairText(e) == <<"(">> \o Repr(Spell(e.k)) \o <<", ">> \o Repr(e.s) \o <<")">>

RECURSIVE JoinPairs(_)
JoinPairs(args) ==
    IF args = <<>> THEN <<>>
    ELSE PairText(Head(args))
            \o (IF Len(args) > 1 THEN <<", ">> ELSE <<>>)
            \o JoinPairs(Tail(args))

\* str(tuple(sorted(request.args.items(multi=True))))
ArgsText(args) ==
    <<"(">> \o JoinPairs(Sorted(args, TRUE))
        \o (IF Len(args) = 1 THEN <<",">> ELSE <<>>) \o <<")">>

\* The key @cache.cached gives a request: make_cache_key for find-room, the
\* path and the hash of the sorted query arguments with query_string=True,
\* "view/" and the path otherwise.
CacheKey(r) ==
    CASE r.route = "find-room" -> make_request_body_cache_key(r.body)
      [] r.route = "rooms" ->
            <<"/v1/rooms">> \o md5(ArgsText(r.query))
      [] OTHER -> <<"view/", "/v1/cache-test">>

\* The view function of a request: its response, and whether find_room ran.
View(o, r) ==
    CASE r.route = "find-room" -> handle_find_room(o, r.body)
      [] r.route = "rooms" -> [resp |-> handle_rooms(o), invoked |-> FALSE]
      [] OTHER -> [resp |-> cache_test, invoked |-> FALSE]

\* The bodies the HTTP clients send along with the other routes: no JSON,
\* false JSON, no object, an incomplete object, and complete requests.
ClientBodies ==
    {Garbage, Obj(<<>>), Scalar("int", <<"5">>),
     Obj(<<StrV("building", LIB)>>),
     Complete(LIB, StrV("room", a1)),
     Obj(<<StrV("room", a1), StrV("building", LIB)>>),
     Complete(NOPE, StrV("room", a1))}

\* Two requests whose room identifiers have a lower-case letter.
CaseRequests ==
    {Complete(LIB, StrV("room", a1)), Complete(LIB, StrV("room", SharpS))}

\* The complete request sent again and again around a clear-cache.
ClearBodies == {Complete(LIB, StrV("room", a1))}

\* The bodies of three requests that race for the bare-path entry.
RaceBodies == {Obj(<<>>), Garbage, Complete(LIB, StrV("room", a1))}

\* The number of requests the clients send.
Requests ==
    CASE universe \in {"pipe", "case"} -> 1
      [] universe = "shape" -> MaxReqs - 1
      [] universe \in {"race", "clear"} -> MaxReqs + 1
      [] OTHER -> MaxReqs

Bodies ==
    CASE universe = "keys" -> ObjectBodies
      [] universe = "pipe" -> PipeBodies
      [] universe = "case" -> CaseRequests
      [] universe = "race" -> RaceBodies
      [] universe = "clear" -> ClearBodies
      [] universe = "shape" -> HttpBodies
      [] OTHER -> ClientBodies

\* The requests the clients send: find-room with every body of the
\* universe and, for the HTTP clients, the two other cached routes
\* (cache-test alone around a clear-cache).
Reqs ==
    {FindRoom(b) : b \in Bodies}
        \cup (IF universe = "http"
              THEN {Rooms(<<>>),
                    Rooms(<<StrV("x", <<"o", "'", "1">>), StrV("building", LIB)>>),
                    CacheTest}
              ELSE IF universe = "clear" THEN {CacheTest}
              ELSE {})

---------------------------------------------------------------------------
(* State *)

Workers == {1, 2}

\* The clear-cache requests that can be in progress together: two among the
\* clients that send requests around a clear-cache, one at a time elsewhere.
ClearSlots == {1, 2}
Clears == IF universe = "clear" THEN ClearSlots ELSE {1}

NoResponse == Response(0, <<>>, NoRoom)
EmptyCache == [k \in {} |-> NoResponse]

Start(u, o) ==
    /\ osm = o
    /\ universe = u
    /\ cache = EmptyCache
    /\ calls = 0
    /\ nreq = 0
    /\ pc = [w \in Workers |-> "idle"]
    /\ wreq = [w \in Workers |-> CacheTest]
    /\ wrv = [w \in Workers |-> NoResponse]
    /\ wmiss = [w \in Workers |-> FALSE]
    /\ wseq = [w \in Workers |-> 0]
    /\ wrace = [w \in Workers |-> FALSE]
    /\ req = Absent
    /\ resp = NoResponse
    /\ hit = FALSE
    /\ lastOp = "start"
    /\ ckeys = [c \in ClearSlots |-> {}]
    /\ cleared = FALSE
    /\ fresh = FALSE
    /\ stored = {}
    /\ storing = [c \in ClearSlots |-> {}]
    /\ answered = {}

Init == \E f \in Filters : Start("http", Campus(f))
InitKeys == Start("keys", Campus("any"))
InitPipe == \E o \in Generated : Start("pipe", o)
InitCase == \E o \in Generated : Start("case", o)
InitRace == \E f \in Filters : Start("race", Campus(f))
InitShape == \E f \in Filters : Start("shape", Campus(f))
InitClear == Start("clear", Campus("any"))

\* A body that is an object with the members `building` and `room`.
HasMember(body, name) ==
    body.kind = "object" /\ \E i \in DOMAIN body.elems : body.elems[i].k = name

MemberOf(body, name) ==
    body.elems[CHOOSE i \in DOMAIN body.elems : body.elems[i].k = name]

HasBoth(body) == HasMember(body, "building") /\ HasMember(body, "room")

workerVars == <<pc, wreq, wrv, wmiss, wseq, wrace>>
seenVars == <<req, resp, hit, lastOp, answered>>
clearVars == <<ckeys, cleared, fresh, stored, storing>>

---------------------------------------------------------------------------
(* The cached views, served by workers with no lock around the cache:      *)
(* @cache.cached computes the key and reads the cache; on a miss it runs   *)
(* the view and then writes the cache.  Other requests, clear-cache and    *)
(* expiry fall between these steps.                                        *)

\* cache.set(cache_key, rv)
CacheSet(c, k, rv) == [x \in DOMAIN c \cup {k} |-> IF x = k THEN rv ELSE c[x]]

\* removal of one entry
CacheDrop(c, k) == [x \in DOMAIN c \ {k} |-> c[x]]

\* The answers on record, those whose cache key is in `keys` marked `how`.
Dropped(keys, how) ==
    {IF a.state = "live" /\ make_request_body_cache_key(a.body) \in keys
        THEN [a EXCEPT !.state = how] ELSE a : a \in answered}

\* The response rv goes back to the client of request r.
Answered(r, rv, found) ==
    IF r.route = "find-room"
    THEN /\ req' = r.body
         /\ resp' = rv
         /\ hit' = found
         /\ lastOp' = "find"
         /\ answered' = answered \cup {[body |-> r.body, resp |-> rv, state |-> "live"]}
    ELSE /\ lastOp' = r.route
         /\ UNCHANGED <<req, resp, hit, answered>>

\* The workers among ws that missed under key k and have not stored yet.
InFlight(ws, k) ==
    {v \in ws : pc[v] \in {"run", "set"} /\ CacheKey(wreq[v]) = k}

\* A worker takes request r (workers are interchangeable, so a request goes
\* to the lowest-numbered worker that has none in flight):
\* cache_key = make_cache_key(); rv = cache.get(cache_key); a stored
\* response is returned at once.
Lookup(w, r) ==
    /\ pc[w] \in {"idle", "done"}
    /\ \A v \in Workers : v < w => pc[v] \in {"run", "set"}
    /\ nreq < Requests
    /\ nreq' = nreq + 1
    /\ wreq' = [wreq EXCEPT ![w] = r]
    /\ wseq' = [wseq EXCEPT ![w] = nreq + 1]
    /\ fresh' = (fresh /\ ~(r.route = "find-room" /\ HasBoth(r.body)))
    /\ IF CacheKey(r) \in DOMAIN cache
       THEN /\ wrv' = [wrv EXCEPT ![w] = cache[CacheKey(r)]]
            /\ wmiss' = [wmiss EXCEPT ![w] = FALSE]
            /\ wrace' = [wrace EXCEPT ![w] = FALSE]
            /\ pc' = [pc EXCEPT ![w] = "done"]
            /\ Answered(r, cache[CacheKey(r)], TRUE)
       ELSE /\ wrv' = [wrv EXCEPT ![w] = NoResponse]
            /\ wmiss' = [wmiss EXCEPT ![w] = TRUE]
            /\ wrace' = [v \in Workers |->
                            IF InFlight(Workers \ {w}, CacheKey(r)) # {}
                                /\ v \in InFlight(Workers \ {w}, CacheKey(r)) \cup {w}
                            THEN TRUE
                            ELSE IF v = w THEN FALSE ELSE wrace[v]]
            /\ pc' = [pc EXCEPT ![w] = "run"]
            /\ UNCHANGED seenVars
    /\ UNCHANGED <<osm, universe, cache, calls, ckeys, cleared, stored, storing>>

\* rv = f(*args, **kwargs): the view function runs.
Compute(w) ==
    /\ pc[w] = "run"
    /\ LET out == View(osm, wreq[w]) IN
        /\ wrv' = [wrv EXCEPT ![w] = out.resp]
        /\ calls' = IF out.invoked THEN calls + 1 ELSE calls
    /\ pc' = [pc EXCEPT ![w] = "set"]
    /\ UNCHANGED <<osm, universe, cache, nreq, wreq, wmiss, wseq, wrace, seenVars,
                   clearVars>>

\* cache.set(cache_key, rv); return rv
Store(w) ==
    /\ pc[w] = "set"
    /\ cache' = CacheSet(cache, CacheKey(wreq[w]), wrv[w])
    /\ pc' = [pc EXCEPT ![w] = "done"]
    /\ Answered(wreq[w], wrv[w], FALSE)
    /\ stored' = IF cleared THEN stored \cup {CacheKey(wreq[w])} ELSE stored
    /\ storing' = [c \in ClearSlots |->
                        IF ckeys[c] # {} THEN storing[c] \cup {CacheKey(wreq[w])}
                        ELSE storing[c]]
    /\ UNCHANGED <<osm, universe, calls, nreq, wreq, wrv, wmiss, wseq, wrace,
                   ckeys, cleared, fresh>>

\* The outcome of a clear-cache that listed `keys` and saw `written` stored
\* since: the answers under the keys are gone, and what the store may still
\* hold was written after the listing under a key not listed.
ClearDone(keys, written) ==
    /\ answered' = Dropped(keys, "cleared")
    /\ lastOp' = "clear"
    /\ cleared' = TRUE
    /\ fresh' = TRUE
    /\ stored' = (IF cleared THEN stored \cap written ELSE written) \ keys

\* POST /v1/clear-cache, cache.clear(), taken by clear request c (the
\* lowest-numbered one not running): the keys under the cache's prefix are
\* listed; with none there is nothing to delete and the clear is done.
ClearKeys(c) ==
    /\ ckeys[c] = {}
    /\ \A d \in Clears : d < c => ckeys[d] # {}
    /\ storing' = [storing EXCEPT ![c] = {}]
    /\ IF DOMAIN cache = {}
       THEN /\ ClearDone({}, {})
            /\ UNCHANGED ckeys
       ELSE /\ ckeys' = [ckeys EXCEPT ![c] = DOMAIN cache]
            /\ UNCHANGED <<lastOp, cleared, fresh, stored, answered>>
    /\ UNCHANGED <<osm, universe, cache, calls, nreq, req, resp, hit, workerVars>>

ClearKeeps(c) ==                  \* the delete left out
    /\ ckeys[c] # {}
    /\ ClearDone(ckeys[c], storing[c])
    /\ ckeys' = [ckeys EXCEPT ![c] = {}]
    /\ storing' = [storing EXCEPT ![c] = {}]
    /\ UNCHANGED <<cache, osm, universe, calls, nreq, req, resp, hit, workerVars>>

\* cache.clear(), second step: the keys listed are deleted, whatever was
\* written under them meanwhile, and "Cache cleared successfully" returned.
ClearDelete(c) ==
    /\ ckeys[c] # {}
    /\ cache' = [k \in DOMAIN cache \ ckeys[c] |-> cache[k]]
    /\ ClearDone(ckeys[c], storing[c])
    /\ ckeys' = [ckeys EXCEPT ![c] = {}]
    /\ storing' = [storing EXCEPT ![c] = {}]
    /\ UNCHANGED <<osm, universe, calls, nreq, req, resp, hit, workerVars>>

\* An entry reaches its timeout and the store drops it.
Expire(k) ==
    /\ k \in DOMAIN cache
    /\ cache' = CacheDrop(cache, k)
    /\ answered' = Dropped({k}, "expired")
    /\ lastOp' = "expire"
    /\ UNCHANGED <<osm, universe, calls, nreq, req, resp, hit, clearVars, workerVars>>

Next ==
    \/ \E w \in Workers, r \in Reqs : Lookup(w, r)
    \/ \E w \in Workers : Compute(w)
    \/ \E w \in Workers : Store(w)
    \/ \E c \in Clears : ClearKeys(c)
    \/ \E c \in Clears : ClearDelete(c)
    \/ \E k \in DOMAIN cache : Expire(k)

Spec == Init /\ [][Next]_vars
KeySpec == InitKeys /\ [][Next]_vars
PipeSpec == InitPipe /\ [][Next]_vars
CaseSpec == InitCase /\ [][Next]_vars
RaceSpec == InitRace /\ [][Next]_vars
ShapeSpec == InitShape /\ [][Next]_vars
ClearSpec == InitClear /\ [][Next]_vars

---------------------------------------------------------------------------
(* Properties *)

\* The response the view function computes for `body` with nothing cached.
Uncached(body) == handle_find_room(osm, body).resp

NotFound(msg) == Response(404, msg, NoRoom)

\* Worker w takes a find-room request in this step.
Arrives(w) == wseq'[w] # wseq[w] /\ wreq'[w].route = "find-room"

\* C1: every find-room request whose body lacks `building` or `room` is
\* answered 400 "Missing required parameters", whatever was requested before.
C1_MissingParametersGive400 ==
    (lastOp = "find" /\ ~HasBoth(req)) => resp = MissingParameters

\* C2: a room returned with status 200 carries a ref or a name tag equal, as
\* text, to the upper-cased room identifier of the request.
C2_ReturnedRoomIsExactMatch ==
    (lastOp = "find" /\ resp.status = 200) =>
        LET wanted == Capitals(MemberOf(req, "room").s)
        IN  \/ (resp.match.ref # NoTag /\ resp.match.ref = wanted)
            \/ (resp.match.name # NoTag /\ resp.match.name = wanted)

\* C2 witness: a room was returned although an earlier record of the
\* dataset passed the candidate query and the containment join without
\* carrying the identifier.
C2_Witness ==
    /\ lastOp = "find" /\ resp.status = 200 /\ ~hit
    /\ resp.match.id = 2
    /\ osm.filter = "any"
    /\ osm.rooms[1].indoor /\ osm.rooms[1].region = "r1"
    /\ osm.rooms[1].ref = NoTag /\ osm.rooms[1].name = NoTag

\* C3: a find-room request identical to one already answered, with no
\* clear-cache and no expiry of that answer's entry since, is served the
\* same response out of the cache, and find_room is not invoked for it.
C3_RepeatIsServedFromCache ==
    [][\A w \in Workers : \A a \in answered :
          (Arrives(w) /\ a.state = "live" /\ a.body = wreq'[w].body)
            => (~wmiss'[w] /\ wrv'[w] = a.resp /\ calls' = calls /\ cache' = cache)]_vars

\* C4 as stated: when clear-cache is the last operation completed the cache
\* holds no entry, and the next find-room request with both parameters to
\* arrive misses.
C4_ClearForcesRecomputation ==
    [][/\ lastOp' = "clear" => cache' = EmptyCache
       /\ \A w \in Workers :
            (fresh /\ Arrives(w) /\ HasBoth(wreq'[w].body))
                => (wmiss'[w] /\ pc'[w] = "run")]_vars

\* C4 amended: when clear-cache completes, every entry it listed is gone,
\* also the entries of requests answered before, and from then on the store
\* holds only entries written after the clear began to list the keys.  A
\* find-room request with both parameters that arrives after a clear-cache
\* completed misses and find_room is invoked for it, whatever other routes
\* and other keys were served in between, unless the entry of its own key
\* was written after that clear began; the request is then served that
\* entry, the response find_room gives for its body, and find_room is not
\* invoked.
C4_ClearForcesRecomputationUnlessStoredSince ==
    [][/\ \A c \in ClearSlots :
            (ckeys[c] # {} /\ ckeys'[c] = {}) => DOMAIN cache' \cap ckeys[c] = {}
       /\ cleared' => DOMAIN cache' \subseteq stored'
       /\ \A w \in Workers :
            /\ (cleared /\ Arrives(w) /\ HasBoth(wreq'[w].body)
                    /\ CacheKey(wreq'[w]) \notin stored)
                    => (wmiss'[w] /\ pc'[w] = "run")
            /\ (cleared /\ Arrives(w) /\ HasBoth(wreq'[w].body) /\ ~wmiss'[w])
                    => (/\ wrv'[w] = Uncached(wreq'[w].body)
                        /\ calls' = calls
                        /\ CacheKey(wreq'[w]) \in stored)
            /\ (pc[w] = "run" /\ pc'[w] = "set" /\ wreq[w].route = "find-room"
                    /\ HasBoth(wreq[w].body))
                    => calls' = calls + 1]_vars

\* C4 witness: a request answered and cached, the cache cleared, an entry of
\* another route written after the clear began, and the first request
\* computed again.
C4_Witness ==
    /\ lastOp = "find" /\ ~hit /\ nreq = 3 /\ calls = 2
    /\ HasBoth(req) /\ cleared /\ \A c \in ClearSlots : ckeys[c] = {}
    /\ [body |-> req, resp |-> resp, state |-> "cleared"] \in answered
    /\ [body |-> req, resp |-> resp, state |-> "live"] \in answered
    /\ stored = {make_request_body_cache_key(req), CacheKey(CacheTest)}
    /\ DOMAIN cache = stored

\* Two objects with the same members, whatever their order.
SameMembers(b1, b2) ==
    /\ b1.kind = "object" /\ b2.kind = "object"
    /\ Len(b1.elems) = Len(b2.elems)
    /\ {b1.elems[i] : i \in DOMAIN b1.elems} = {b2.elems[i] : i \in DOMAIN b2.elems}

\* C5: bodies with the same members in a different order have the same
\* cache key, so the second is answered from the entry of the first.
C5_KeyIgnoresMemberOrder ==
    [][\A w \in Workers : \A a \in answered :
          (Arrives(w) /\ a.state = "live" /\ SameMembers(a.body, wreq'[w].body))
            => /\ make_request_body_cache_key(a.body)
                    = make_request_body_cache_key(wreq'[w].body)
               /\ ~wmiss'[w] /\ wrv'[w] = a.resp /\ calls' = calls]_vars

\* C5 witness: a three-member body answered from the entry left by the same
\* members in another order.
C5_Witness ==
    /\ lastOp = "find" /\ hit /\ Len(req.elems) = 3
    /\ \E a \in answered :
          a.state = "live" /\ a.body # req /\ SameMembers(a.body, req)

\* lower() of one character
LowerChar(c) ==
    CASE \E i \in DOMAIN UpperCase : UpperCase[i] = c ->
            LowerCase[CHOOSE i \in DOMAIN UpperCase : UpperCase[i] = c]
      [] c = "É" -> "é"
      [] c = "ẞ" -> "ß"
      [] OTHER -> c

\* Two texts that differ in letter case at most.
CaseVariants(s1, s2) ==
    /\ Len(s1) = Len(s2)
    /\ \A i \in DOMAIN s1 : LowerChar(s1[i]) = LowerChar(s2[i])

\* Room identifiers in several spellings.
CaseRooms == {a1, A1, None, NONE, SharpS, CapitalSharpS, SS}

\* The pairs of requests for the same building with the room identifiers
\* r1 and r2, each request with its cache key.
BodyPairs(r1, r2) ==
    {[b1 |-> Complete(bn, StrV("room", r1)),
      b2 |-> Complete(bn, StrV("room", r2)),
      k1 |-> make_request_body_cache_key(Complete(bn, StrV("room", r1))),
      k2 |-> make_request_body_cache_key(Complete(bn, StrV("room", r2)))] :
        bn \in {LIB, GYM}}

\* The pairs of requests for the same building whose room identifiers differ
\* only in letter case.
CasePairs ==
    UNION {BodyPairs(rr[1], rr[2]) :
            rr \in {x \in CaseRooms \X CaseRooms :
                        TextBefore(x[1], x[2]) /\ CaseVariants(x[1], x[2])}}

\* The pairs of requests for the same building whose room identifiers have
\* the same upper-case form.
CapitalPairs ==
    UNION {BodyPairs(rr[1], rr[2]) :
            rr \in {x \in CaseRooms \X CaseRooms :
                        TextBefore(x[1], x[2]) /\ Capitals(x[1]) = Capitals(x[2])}}

\* The response the cached endpoint gives to `body`, whose key is k.
ServedAt(k, body) ==
    IF k \in DOMAIN cache THEN cache[k] ELSE handle_find_room(osm, body).resp

\* C6 as stated: two requests for the same building whose room identifiers
\* differ only in letter case get the same response, in every cache state.
C6_RoomCaseInsensitive ==
    \A p \in CasePairs : ServedAt(p.k1, p.b1) = ServedAt(p.k2, p.b2)

\* C6 amended: two requests for the same building whose room identifiers
\* have the same upper-case form get the same response, in every cache
\* state; these are the identifiers that differ only in the case of letters
\* whose capital is one letter ("a1" and "A1"), and also "ß" and "SS", but
\* not "ß" and "ẞ".
C6_SameCapitalsSameOutcome ==
    \A p \in CapitalPairs : ServedAt(p.k1, p.b1) = ServedAt(p.k2, p.b2)

\* C6 witness: the room tagged SS found for the identifier ß and cached,
\* the spelling SS not cached.
C6_Witness ==
    \E p \in CapitalPairs :
        /\ p.b1 = Complete(LIB, StrV("room", SS))
        /\ p.b2 = Complete(LIB, StrV("room", SharpS))
        /\ p.k2 \in DOMAIN cache /\ p.k1 \notin DOMAIN cache
        /\ cache[p.k2].status = 200
        /\ req = p.b2 /\ lastOp = "find"
        /\ \E q \in CapitalPairs : q.b2 = Complete(GYM, StrV("room", a1))

\* C7: the pipeline fails at the first failing step, each with its own 404
\* message: building lookup, dataset-wide room search, containment, exact
\* match.
C7_FailuresInOrder ==
    (lastOp = "find" /\ HasBoth(req)) =>
        LET bn == MemberOf(req, "building").s
            room == MemberOf(req, "room")
            rid == Capitals(room.s)
            named == {b \in {osm.buildings[i] : i \in DOMAIN osm.buildings} :
                            b.name = bn}
            cands == {r \in {osm.rooms[i] : i \in DOMAIN osm.rooms} :
                            Keeps(osm, r, rid)}
            inside == {r \in cands : \E b \in named : r.region = b.region}
            exact == {r \in inside : r.ref = rid \/ r.name = rid}
        IN  /\ named = {} =>
                resp = NotFound(<<"Building '">> \o bn \o <<"' not found">>)
            /\ (named # {} /\ room.t = "str" /\ cands = {}) =>
                resp = NotFound(<<"Room '">> \o rid \o <<"' not found in dataset">>)
            /\ (named # {} /\ room.t = "str" /\ cands # {} /\ inside = {}) =>
                resp = NotFound(<<"Room '">> \o rid \o <<"' not found in ">> \o bn)
            /\ (named # {} /\ room.t = "str" /\ inside # {} /\ exact = {}) =>
                resp = NotFound(<<"Exact match for '">> \o rid \o <<"' not found">>)

\* C7 witness: candidates exist, all of them outside the building.
C7_Witness ==
    /\ lastOp = "find" /\ HasBoth(req)
    /\ resp = NotFound(<<"Room '">> \o A1 \o <<"' not found in ">> \o LIB)
    /\ req = Complete(LIB, StrV("room", a1))

\* C8: two find-room requests with the same cache key that both miss while
\* the other is in flight each compute and store a response; the entry left
\* is the response either would get alone, and both get it.
C8_ConcurrentMissesAgree ==
    (/\ pc[1] = "done" /\ pc[2] = "done"
     /\ wrace[1] /\ wrace[2]
     /\ wreq[1].route = "find-room" /\ wreq[2].route = "find-room"
     /\ CacheKey(wreq[1]) = CacheKey(wreq[2])
     /\ CacheKey(wreq[1]) \in DOMAIN cache)
    => LET entry == cache[CacheKey(wreq[1])] IN
       /\ entry = Uncached(wreq[1].body) /\ entry = Uncached(wreq[2].body)
       /\ wrv[1] = entry /\ wrv[2] = entry

\* The payloads that are no JSON, and the JSON values Python holds false.
Unparsed == {Absent, Garbage}
FalsyJson ==
    {Null, Obj(<<>>), List(<<>>), Scalar("int", <<"0">>),
     Scalar("bool", <<"false">>), Scalar("str", <<>>)}

\* C9 as stated: the key is the bare path exactly for an absent or
\* unparseable body.
C9_BarePathOnlyWhenUnparsed ==
    lastOp = "find" =>
        (make_request_body_cache_key(req) = <<Path>> <=> req \in Unparsed)

\* C9 amended: the key is the bare path for an absent or unparseable body
\* and for a body that parses to a false value (null, false, 0, "", [], {});
\* for every other body it is the path, a colon and the hash of the body
\* serialised with sorted keys, and the response is stored under it.
C9_BarePathWhenUnparsedOrFalsy ==
    lastOp = "find" =>
        /\ req \in Unparsed \cup FalsyJson =>
                make_request_body_cache_key(req) = <<Path>>
        /\ req \notin Unparsed \cup FalsyJson =>
                make_request_body_cache_key(req)
                    = <<Path, ":", "md5(">> \o dumps(req) \o <<")">>
        /\ make_request_body_cache_key(req) \in DOMAIN cache

\* C9 witness: an empty object keyed by the bare path.
C9_Witness ==
    /\ lastOp = "find" /\ req = Obj(<<>>) /\ ~hit
    /\ DOMAIN cache = {<<Path>>}

\* C10: the response to a find-room request is the response the view
\* function computes for that body with an empty cache.
C10_CacheTransparent ==
    lastOp = "find" => resp = Uncached(req)

====
